---- MODULE Spec2Model ----
(***************************************************************************)
(* Model of the mcp-tools tool handlers: get_weather, bash, git and the    *)
(* GitHub repository tool.  One invocation runs at a time (the handlers    *)
(* share no state); an invocation is a handler running from its entry to   *)
(* its return, suspended only while an external process or a remote API    *)
(* call is outstanding.  `events` is the ordered history of what the       *)
(* running invocation did: spans, log events, the decode step, remote      *)
(* calls, process spawns and the return.                                   *)
(***************************************************************************)
EXTENDS Naturals, Sequences, FiniteSets, TLC

VARIABLES
    pc,        \* "idle" | "exec" | "remote" | "returned": where the handler is
    tool,      \* params.Name of the running invocation
    args,      \* params.Arguments: the raw JSON payload
    input,     \* the decoded input structure
    events,    \* history of the invocation, oldest first
    span,      \* the trace span of the invocation, if one was started
    ret,       \* the handler's two return values once it has returned
    proc,      \* the external process spawned by the invocation
    pending,   \* the remote API call in flight
    ctxDone    \* whether the context passed to the handler is cancelled

vars == <<pc, tool, args, input, events, span, ret, proc, pending, ctxDone>>

(***************************************************************************)
(* Bounds of the model.                                                    *)
(***************************************************************************)
MaxArgs == 1      \* longest "args" array in a payload

(***************************************************************************)
(* Tool names.                                                             *)
(***************************************************************************)
WeatherToolName == "get_weather"
BashToolName == "bash"
GitToolName == "git"
GitHubRepositoryToolName == "github_repository"

ToolNames == {WeatherToolName, BashToolName, GitToolName, GitHubRepositoryToolName}

(***************************************************************************)
(* JSON payloads.  A payload is well formed or not; a well-formed one maps *)
(* each field name to a JSON value (or to Absent).                         *)
(***************************************************************************)
JV(t, s, l) == [t |-> t, s |-> s, l |-> l]
Absent == JV("absent", "", <<>>)
JNull == JV("null", "", <<>>)
JStr(s) == JV("string", s, <<>>)
JNum(s) == JV("number", s, <<>>)
JBool(b) == JV("bool", IF b THEN "true" ELSE "false", <<>>)
JArr(l) == JV("array", "", l)

Payload(wf, f) == [wf |-> wf, f |-> f]

NoErr == "nil"

(***************************************************************************)
(* encoding/json.Unmarshal into a struct: a field that is absent or null   *)
(* keeps its zero value, a value of the wrong JSON type is an error.       *)
(***************************************************************************)
DecodeString(v) ==
    CASE v.t \in {"absent", "null"} -> [err |-> NoErr, val |-> ""]
      [] v.t = "string" -> [err |-> NoErr, val |-> v.s]
      [] OTHER -> [err |-> "json: cannot unmarshal " \o v.t \o " into Go struct field of type string",
                   val |-> ""]

DecodeBool(v) ==
    CASE v.t \in {"absent", "null"} -> [err |-> NoErr, val |-> FALSE]
      [] v.t = "bool" -> [err |-> NoErr, val |-> (v.s = "true")]
      [] OTHER -> [err |-> "json: cannot unmarshal " \o v.t \o " into Go struct field of type bool",
                   val |-> FALSE]

DecodeStrings(v) ==
    CASE v.t \in {"absent", "null"} -> [err |-> NoErr, val |-> <<>>]
      [] v.t = "array" ->
            IF \E i \in 1..Len(v.l) : DecodeString(v.l[i]).err # NoErr
            THEN [err |-> "json: cannot unmarshal array element into Go value of type string",
                  val |-> <<>>]
            ELSE [err |-> NoErr, val |-> [i \in 1..Len(v.l) |-> DecodeString(v.l[i]).val]]
      [] OTHER -> [err |-> "json: cannot unmarshal " \o v.t \o " into Go struct field of type []string",
                   val |-> <<>>]

SyntaxError == "invalid character in JSON input"

\* The first error among the decoded fields, NoErr when there is none.
FirstErr(errs) ==
    IF \A i \in 1..Len(errs) : errs[i] = NoErr THEN NoErr
    ELSE errs[CHOOSE i \in 1..Len(errs) :
                 errs[i] # NoErr /\ \A j \in 1..(i - 1) : errs[j] = NoErr]

(***************************************************************************)
(* Events, envelopes and return values.                                    *)
(***************************************************************************)
Ev(k, a, b) == [kind |-> k, a |-> a, b |-> b]
Log(level, msg) == Ev("log", level, msg)

TextContent(typ, text) == [type |-> typ, text |-> text]
CallToolResult(content, isError) == [content |-> content, isError |-> isError]
EmptyResult == CallToolResult(<<>>, FALSE)

Return(result, err) == [result |-> result, err |-> err]
NoReturn == Return(EmptyResult, NoErr)

NoSpan == [started |-> FALSE, name |-> "", toolName |-> <<>>, toolArgument |-> <<>>,
           errors |-> <<>>, ended |-> FALSE]
StartSpan(name) == [NoSpan EXCEPT !.started = TRUE, !.name = name]

NoProc == [state |-> "none", path |-> "", argv |-> <<>>, bound |-> FALSE,
           via |-> "", output |-> "", err |-> NoErr]
NoPending == ""
NoInput == [tool |-> ""]

\* returnErrorOutput: the domain-failure envelope built from an error.
returnErrorOutput(err) == CallToolResult(<<TextContent("text", err)>>, TRUE)


(***************************************************************************)
(* Input payloads of each tool.                                            *)
(***************************************************************************)
Malformed(fields) == Payload(FALSE, [k \in fields |-> Absent])
PayloadsOver(fields, values) ==
    {Malformed(fields)} \cup {Payload(TRUE, f) : f \in [fields -> values]}

ArgElems == {JStr("x"), JNum("1")}
ArgArrays == UNION {[1..n -> ArgElems] : n \in 0..MaxArgs}
ArgsValues == {Absent, JStr("x")} \cup {JArr(l) : l \in ArgArrays}

WeatherPayloads ==
    PayloadsOver({"location"}, {Absent, JNull, JStr("San Francisco, CA"), JStr(""), JNum("7")})

BashPayloads ==
    {Malformed({"command", "args"})} \cup
    {Payload(TRUE, [command |-> c, args |-> a]) :
        c \in {Absent, JStr("echo hi"), JNum("1")}, a \in ArgsValues}

GitPayloads ==
    {Malformed({"command", "repo_path", "args"})} \cup
    {Payload(TRUE, [command |-> c, repo_path |-> r, args |-> a]) :
        c \in {JStr("status"), JBool(TRUE)},
        r \in {Absent, JStr("/tmp/nonexistent")},
        a \in ArgsValues}

\* What an external process can print, and how it can end.
Outputs == {"", "hi\n", "fatal: not a git repository\n"}
ExitErrs == {NoErr, "exit status 1", "exit status 128"}
KilledErr == "signal: killed"

(***************************************************************************)
(* get_weather (src/get_weather.go)                                        *)
(***************************************************************************)
WeatherUnmarshal(p) ==
    LET loc == DecodeString(p.f.location) IN
    IF ~p.wf THEN [err |-> SyntaxError, Location |-> ""]
    ELSE [err |-> loc.err, Location |-> loc.val]

\* The `err` of line 37 read by the deferred function of lines 38-42: line 47
\* declares its own `err` in the scope of the if statement, so the outer one is
\* never assigned.
WeatherOuterErr(decodeErr) == NoErr

WeatherDeferred(outerErr) ==
    IF outerErr # NoErr THEN <<Ev("span.record", outerErr, "")>> ELSE <<>>

WeatherText(location) == "Weather in " \o location \o ": Sunny, 72 deg F"

WeatherReturn(d) ==
    IF d.err # NoErr THEN Return(EmptyResult, d.err)
    ELSE Return(CallToolResult(<<TextContent("text", WeatherText(d.Location))>>, FALSE), NoErr)

WeatherHandler(p) ==
    LET d == WeatherUnmarshal(p)
        recorded == WeatherDeferred(WeatherOuterErr(d.err))
        sp0 == [StartSpan(WeatherToolName \o ".Handler") EXCEPT
                  !.toolName = <<WeatherToolName>>, !.toolArgument = <<p>>]
    IN  /\ pc \in {"idle", "returned"}
        /\ pc' = "returned"
        /\ tool' = WeatherToolName
        /\ args' = p
        /\ input' = [tool |-> WeatherToolName, err |-> d.err, Location |-> d.Location]
        /\ events' = <<Ev("span.start", WeatherToolName \o ".Handler", ""),
                       Ev("span.attrs", "", ""),
                       Ev("decode", d.err, "")>>
                     \o recorded
                     \o <<Ev("span.end", "", ""), Ev("return", "", "")>>
        /\ span' = [sp0 EXCEPT !.errors = [i \in 1..Len(recorded) |-> recorded[i].a],
                               !.ended = TRUE]
        /\ ret' = WeatherReturn(d)
        /\ proc' = NoProc
        /\ pending' = NoPending
        /\ ctxDone' = FALSE

(***************************************************************************)
(* External processes.  CombinedOutput blocks the handler until the        *)
(* process has exited; a process started with exec.CommandContext is       *)
(* killed once its context is done, one started with exec.Command is not.  *)
(***************************************************************************)
Command(path, argv, bound, via) ==
    [state |-> "running", path |-> path, argv |-> argv, bound |-> bound,
     via |-> via, output |-> "", err |-> NoErr]

ProcessExit(out, e) ==
    /\ proc.state = "running"
    /\ proc' = [proc EXCEPT !.state = "exited", !.output = out, !.err = e]
    /\ UNCHANGED <<pc, tool, args, input, events, span, ret, pending, ctxDone>>

ContextCancel ==
    /\ pc \in {"exec", "remote"}
    /\ ~ctxDone
    /\ ctxDone' = TRUE
    /\ UNCHANGED <<pc, tool, args, input, events, span, ret, proc, pending>>

ContextKill(out) ==
    /\ ctxDone
    /\ proc.state = "running"
    /\ proc.bound
    /\ proc' = [proc EXCEPT !.state = "exited", !.output = out, !.err = KilledErr]
    /\ UNCHANGED <<pc, tool, args, input, events, span, ret, pending, ctxDone>>

(***************************************************************************)
(* bash (src/unnamed/part_001)                                             *)
(***************************************************************************)
BashUnmarshal(p) ==
    LET c == DecodeString(p.f.command)
        a == DecodeStrings(p.f.args) IN
    IF ~p.wf THEN [err |-> SyntaxError, Command |-> "", Args |-> <<>>]
    ELSE [err |-> FirstErr(<<c.err, a.err>>), Command |-> c.val, Args |-> a.val]

\* Faulty variant: the decode failure reported through the envelope instead.
BashDecodeFailureInEnvelope(err) ==
    [events |-> <<Log("error", "Failed to parse input"), Ev("return", "", "")>>,
     ret |-> Return(returnErrorOutput("failed to parse input: " \o err), NoErr)]

BashDecodeFailure(err) ==
    [events |-> <<Log("error", "Failed to parse input"), Ev("return", "", "")>>,
     ret |-> Return(EmptyResult, "failed to parse input: " \o err)]

\* RealCommandExecutor.ExecuteCommand(ctx, cmd): runs the command it is given
\* to completion (cmd.CombinedOutput()); it cannot bind cmd to ctx afterwards.
ExecuteCommand(cmd) == [cmd EXCEPT !.via = "executor"]

\* exec.Command("bash", "-c", input.Command, input.Args...): no context.
BashCommand(d) == Command("bash", <<"-c", d.Command>> \o d.Args, FALSE, "")

BashHandler(p) ==
    LET d == BashUnmarshal(p)
        received == <<Log("info", "Received input"), Ev("decode", d.err, "")>>
        fail == BashDecodeFailure(d.err)
    IN  /\ pc \in {"idle", "returned"}
        /\ tool' = BashToolName
        /\ args' = p
        /\ input' = [tool |-> BashToolName, err |-> d.err, Command |-> d.Command, Args |-> d.Args]
        /\ span' = NoSpan
        /\ pending' = NoPending
        /\ ctxDone' = FALSE
        /\ IF d.err # NoErr
           THEN /\ pc' = "returned"
                /\ events' = received \o fail.events
                /\ ret' = fail.ret
                /\ proc' = NoProc
           ELSE /\ pc' = "exec"
                /\ events' = received \o <<Log("info", "Executing bash command"),
                                           Ev("exec", ExecuteCommand(BashCommand(d)).via, "bash")>>
                /\ ret' = NoReturn
                /\ proc' = ExecuteCommand(BashCommand(d))

\* Lines 66-76: what the handler does with what ExecuteCommand returned.
BashOutcome(output, err) ==
    IF err # NoErr
    THEN [events |-> <<Log("error", "Failed to execute bash command")>>,
          ret |-> Return(returnErrorOutput(err), NoErr)]
    ELSE [events |-> <<Log("info", "Bash command executed successfully")>>,
          ret |-> Return(CallToolResult(<<TextContent("text", output)>>, FALSE), NoErr)]

BashResume ==
    LET o == BashOutcome(proc.output, proc.err) IN
    /\ pc = "exec"
    /\ tool = BashToolName
    /\ proc.state = "exited"
    /\ pc' = "returned"
    /\ events' = events \o o.events \o <<Ev("return", "", "")>>
    /\ ret' = o.ret
    /\ UNCHANGED <<tool, args, input, span, proc, pending, ctxDone>>

(***************************************************************************)
(* git (src/unnamed/part_002)                                              *)
(***************************************************************************)
GitUnmarshal(p) ==
    LET c == DecodeString(p.f.command)
        r == DecodeString(p.f.repo_path)
        a == DecodeStrings(p.f.args) IN
    IF ~p.wf THEN [err |-> SyntaxError, Command |-> "", RepoPath |-> "", Args |-> <<>>]
    ELSE [err |-> FirstErr(<<c.err, r.err, a.err>>),
          Command |-> c.val, RepoPath |-> r.val, Args |-> a.val]

GitDecodeFailure(err) ==
    [events |-> <<Log("error", "Failed to unmarshal input parameters"),
                  Ev("span.record", err, ""),
                  Ev("span.end", "", ""), Ev("return", "", "")>>,
     recorded |-> <<err>>,
     ret |-> Return(EmptyResult, "failed to unmarshal input: " \o err)]

\* exec.CommandContext(ctx, "git", "-C", repo_path, command, args...), run by
\* cmd.CombinedOutput() of the handler itself.
GitCommand(d) == Command("git", <<"-C", d.RepoPath, d.Command>> \o d.Args, TRUE, "direct")

GitHandler(p) ==
    LET d == GitUnmarshal(p)
        sp0 == [StartSpan(GitToolName \o ".Handler") EXCEPT
                  !.toolName = <<GitToolName>>, !.toolArgument = <<p>>]
        received == <<Ev("span.start", GitToolName \o ".Handler", ""),
                      Ev("span.attrs", "", ""),
                      Log("info", "Received input"),
                      Ev("decode", d.err, "")>>
        fail == GitDecodeFailure(d.err)
    IN  /\ pc \in {"idle", "returned"}
        /\ tool' = GitToolName
        /\ args' = p
        /\ input' = [tool |-> GitToolName, err |-> d.err, Command |-> d.Command,
                     RepoPath |-> d.RepoPath, Args |-> d.Args]
        /\ pending' = NoPending
        /\ ctxDone' = FALSE
        /\ IF d.err # NoErr
           THEN /\ pc' = "returned"
                /\ events' = received \o fail.events
                /\ span' = [sp0 EXCEPT !.errors = fail.recorded, !.ended = TRUE]
                /\ ret' = fail.ret
                /\ proc' = NoProc
           ELSE /\ pc' = "exec"
                /\ events' = received \o <<Log("debug", "Executing git command"),
                                           Log("debug", "Executing git command"),
                                           Ev("exec", "direct", "git")>>
                /\ span' = sp0
                /\ ret' = NoReturn
                /\ proc' = GitCommand(d)

\* Lines 111-133.
GitOutcome(output, err) ==
    IF err # NoErr
    THEN [events |-> <<Log("error", "Git command failed"), Ev("span.record", err, "")>>,
          recorded |-> <<err>>,
          ret |-> Return(returnErrorOutput(err), NoErr)]
    ELSE [events |-> <<Log("debug", "Git command completed successfully")>>,
          recorded |-> <<>>,
          ret |-> Return(CallToolResult(<<TextContent("text", output)>>, FALSE), NoErr)]

GitResume ==
    LET o == GitOutcome(proc.output, proc.err) IN
    /\ pc = "exec"
    /\ tool = GitToolName
    /\ proc.state = "exited"
    /\ pc' = "returned"
    /\ events' = events \o o.events \o <<Ev("span.end", "", ""), Ev("return", "", "")>>
    /\ span' = [span EXCEPT !.errors = @ \o o.recorded, !.ended = TRUE]
    /\ ret' = o.ret
    /\ UNCHANGED <<tool, args, input, proc, pending, ctxDone>>

(***************************************************************************)
(* GitHub repository tool (src/unnamed/part_000)                           *)
(***************************************************************************)
GitHubFields == {"operation", "owner", "repo", "description", "private", "branch",
                 "source_branch"}

ClosedOperations == {"create", "delete", "update", "fork", "list_branches",
                     "create_branch", "protect_branch"}

OperationValues ==
    {JStr(o) : o \in ClosedOperations} \cup {JStr("rename"), JStr(""), Absent, JNum("1")}

GitHubPayloads ==
    {Malformed(GitHubFields)} \cup
    {Payload(TRUE, [operation |-> o, owner |-> JStr("octo"), repo |-> JStr("demo"),
                    description |-> Absent, private |-> pr, branch |-> JStr("feature"),
                    source_branch |-> sb]) :
        o \in OperationValues,
        pr \in {Absent, JBool(TRUE), JStr("yes")},
        sb \in {Absent, JStr("main")}}

\* What the remote API can answer: NoErr (with the operation's object) or an error.
RemoteErrs == {"404 Not Found", "context canceled"}
Replies == {NoErr} \cup RemoteErrs

GitHubUnmarshal(p) ==
    LET o == DecodeString(p.f.operation)
        w == DecodeString(p.f.owner)
        r == DecodeString(p.f.repo)
        d == DecodeString(p.f.description)
        v == DecodeBool(p.f.private)
        b == DecodeString(p.f.branch)
        s == DecodeString(p.f.source_branch)
        zero == [err |-> SyntaxError, Operation |-> "", Owner |-> "", Repo |-> "",
                 Description |-> "", Private |-> FALSE, Branch |-> "", SourceBranch |-> ""]
    IN  IF ~p.wf THEN zero
        ELSE [err |-> FirstErr(<<o.err, w.err, r.err, d.err, v.err, b.err, s.err>>),
              Operation |-> o.val, Owner |-> w.val, Repo |-> r.val, Description |-> d.val,
              Private |-> v.val, Branch |-> b.val, SourceBranch |-> s.val]

\* Faulty variant: the fork case calling the API of the create case.
RouteForkAsCreate(op) ==
    CASE op = "create" -> "Repositories.Create"
      [] op = "delete" -> "Repositories.Delete"
      [] op = "update" -> "Repositories.Edit"
      [] op = "fork" -> "Repositories.Create"
      [] op = "list_branches" -> "Repositories.ListBranches"
      [] op = "create_branch" -> "Git.GetRef"
      [] op = "protect_branch" -> "Repositories.UpdateBranchProtection"
      [] OTHER -> NoPending

\* The switch of lines 129-174: the first remote call of the operation's
\* branch, NoPending for the default branch.
Route(op) ==
    CASE op = "create" -> "Repositories.Create"
      [] op = "delete" -> "Repositories.Delete"
      [] op = "update" -> "Repositories.Edit"
      [] op = "fork" -> "Repositories.CreateFork"
      [] op = "list_branches" -> "Repositories.ListBranches"
      [] op = "create_branch" -> "Git.GetRef"
      [] op = "protect_branch" -> "Repositories.UpdateBranchProtection"
      [] OTHER -> NoPending

\* The argument that tells the calls of one invocation apart.
CallArg(api, d) ==
    CASE api = "Git.GetRef" -> "refs/heads/" \o d.SourceBranch
      [] api = "Git.CreateRef" -> "refs/heads/" \o d.Branch
      [] api = "Repositories.UpdateBranchProtection" -> d.Branch
      [] api = "Repositories.Create" -> d.Repo
      [] OTHER -> d.Owner \o "/" \o d.Repo

\* The object a remote call returns when it succeeds; "nil" when it fails.
RemoteObject(api) ==
    CASE api \in {"Repositories.Create", "Repositories.Edit", "Repositories.CreateFork"}
            -> "Repository"
      [] api = "Repositories.ListBranches" -> "Branches"
      [] api \in {"Git.GetRef", "Git.CreateRef"} -> "Reference"
      [] api = "Repositories.UpdateBranchProtection" -> "Protection"
      [] OTHER -> "Response"

\* mustMarshal: the JSON text of the result slot.
mustMarshal(result) ==
    CASE result = "nil" -> "null"
      [] result = "deleted" -> "{\"status\":\"deleted\"}"
      [] result = "Branches" -> "[{\"name\":\"main\"}]"
      [] result = "Reference" -> "{\"ref\":\"refs/heads/feature\"}"
      [] result = "Protection" -> "{\"required_status_checks\":{\"strict\":true}}"
      [] OTHER -> "{\"name\":\"demo\"}"

\* The result and err slots of lines 126-127 after the single call of a branch
\* other than create_branch has answered `e`.
SingleCallSlots(api, e) ==
    IF api = "Repositories.Delete"
    THEN [result |-> IF e = NoErr THEN "deleted" ELSE "nil", err |-> e]
    ELSE [result |-> IF e = NoErr THEN RemoteObject(api) ELSE "nil", err |-> e]

\* Faulty variant: the error of CreateRef assigned to the err slot.
CreateRefSlotsKeepErr(e) ==
    [result |-> IF e = NoErr THEN "Reference" ELSE "nil", err |-> e]

\* Line 156: `result, _, _ = CreateRef(...)`: the error of the call is dropped,
\* and the err of line 152 is local to the case.
CreateRefSlots(e) ==
    [result |-> IF e = NoErr THEN RemoteObject("Git.CreateRef") ELSE "nil", err |-> NoErr]

\* Faulty variant: the error of GetRef ignored, the handler going on to CreateRef.
GetRefFailureIgnored(e) ==
    [events |-> <<Ev("call", "Git.CreateRef", "refs/heads/")>>,
     next |-> "Git.CreateRef",
     ret |-> NoReturn]

\* Lines 153-155: what a failed GetRef makes the handler do.
GetRefFailure(e) ==
    [events |-> <<Ev("span.end", "", ""), Ev("return", "", "")>>,
     next |-> NoPending,
     ret |-> Return(EmptyResult, e)]

\* Line 173.
UnsupportedOperation(op) ==
    Return(returnErrorOutput("unsupported operation: " \o op), NoErr)

\* Lines 176-198.
GitHubOutcome(op, slots) ==
    IF slots.err # NoErr
    THEN [events |-> <<Log("error", "GitHub repository operation failed")>>,
          ret |-> Return(returnErrorOutput("github repository " \o op \o " error: " \o slots.err),
                         NoErr)]
    ELSE [events |-> <<Log("info", "GitHub repository operation completed successfully")>>,
          ret |-> Return(CallToolResult(<<TextContent("json", mustMarshal(slots.result))>>, FALSE),
                         NoErr)]

handleRepositoryOperation(p) ==
    LET d == GitHubUnmarshal(p)
        name == GitHubRepositoryToolName \o ".Handler"
        received == <<Ev("span.start", name, ""),
                      Log("info", "handling repository operation"),
                      Ev("decode", d.err, "")>>
        leave == <<Ev("span.end", "", ""), Ev("return", "", "")>>
        api == Route(d.Operation)
    IN  /\ pc \in {"idle", "returned"}
        /\ tool' = GitHubRepositoryToolName
        /\ args' = p
        /\ input' = [tool |-> GitHubRepositoryToolName, err |-> d.err,
                     Operation |-> d.Operation, Owner |-> d.Owner, Repo |-> d.Repo,
                     Description |-> d.Description, Private |-> d.Private,
                     Branch |-> d.Branch, SourceBranch |-> d.SourceBranch]
        /\ proc' = NoProc
        /\ ctxDone' = FALSE
        /\ IF d.err # NoErr
           THEN /\ pc' = "returned"
                /\ events' = received \o leave
                /\ span' = [StartSpan(name) EXCEPT !.ended = TRUE]
                /\ ret' = Return(EmptyResult, "failed to unmarshal input: " \o d.err)
                /\ pending' = NoPending
           ELSE IF api = NoPending
           THEN /\ pc' = "returned"
                /\ events' = received \o leave
                /\ span' = [StartSpan(name) EXCEPT !.ended = TRUE]
                /\ ret' = UnsupportedOperation(d.Operation)
                /\ pending' = NoPending
           ELSE /\ pc' = "remote"
                /\ events' = received \o <<Ev("call", api, CallArg(api, d))>>
                /\ span' = StartSpan(name)
                /\ ret' = NoReturn
                /\ pending' = api

\* The remote call in flight answers `e`; the handler runs on to its next
\* remote call or to its return.
RemoteReply(e) ==
    LET reply == Ev("reply", pending, e)
        leave == <<Ev("span.end", "", ""), Ev("return", "", "")>>
        failed == GetRefFailure(e)
        o == GitHubOutcome(input.Operation,
                           IF pending = "Git.CreateRef" THEN CreateRefSlots(e)
                           ELSE SingleCallSlots(pending, e))
    IN  /\ pc = "remote"
        /\ IF pending = "Git.GetRef" /\ e = NoErr
           THEN /\ pc' = "remote"
                /\ pending' = "Git.CreateRef"
                /\ events' = events \o <<reply, Ev("call", "Git.CreateRef",
                                                   CallArg("Git.CreateRef", input))>>
                /\ UNCHANGED <<span, ret>>
           ELSE IF pending = "Git.GetRef"
           THEN /\ pc' = IF failed.next = NoPending THEN "returned" ELSE "remote"
                /\ pending' = failed.next
                /\ events' = events \o <<reply>> \o failed.events
                /\ span' = IF failed.next = NoPending THEN [span EXCEPT !.ended = TRUE] ELSE span
                /\ ret' = failed.ret
           ELSE /\ pc' = "returned"
                /\ pending' = NoPending
                /\ events' = events \o <<reply>> \o o.events \o leave
                /\ span' = [span EXCEPT !.ended = TRUE]
                /\ ret' = o.ret
        /\ UNCHANGED <<tool, args, input, proc, ctxDone>>

(***************************************************************************)
(* Specification                                                           *)
(***************************************************************************)
Init ==
    /\ pc = "idle"
    /\ tool = ""
    /\ args = Malformed({})
    /\ input = NoInput
    /\ events = <<>>
    /\ span = NoSpan
    /\ ret = NoReturn
    /\ proc = NoProc
    /\ pending = NoPending
    /\ ctxDone = FALSE

Next ==
    \/ \E p \in WeatherPayloads : WeatherHandler(p)
    \/ \E p \in BashPayloads : BashHandler(p)
    \/ \E p \in GitPayloads : GitHandler(p)
    \/ \E p \in GitHubPayloads : handleRepositoryOperation(p)
    \/ \E e \in Replies : RemoteReply(e)
    \/ \E out \in Outputs, e \in ExitErrs : ProcessExit(out, e)
    \/ ContextCancel
    \/ \E out \in Outputs : ContextKill(out)
    \/ BashResume
    \/ GitResume

Spec == Init /\ [][Next]_vars


\* What the code's scheduling guarantees: a process bound to a cancelled
\* context is killed by the runtime, and a handler whose process has exited
\* runs on to its return.  Nothing makes a process exit by itself, and nothing
\* makes a caller cancel.
FairSpec ==
    /\ Spec
    /\ WF_vars(\E out \in Outputs : ContextKill(out))
    /\ WF_vars(BashResume)
    /\ WF_vars(GitResume)

(***************************************************************************)
(* Vocabulary of the properties.                                           *)
(***************************************************************************)
Returned == pc = "returned"
Decoded == pc # "idle" /\ input.err = NoErr
DecodeFailed == pc # "idle" /\ input.err # NoErr

Positions(kind) == {i \in 1..Len(events) : events[i].kind = kind}
IsCall(e) == e.kind = "call"
Calls == SelectSeq(events, IsCall)
CallNames == [i \in 1..Len(Calls) |-> Calls[i].a]
Replied(api, e) == \E i \in 1..Len(events) : events[i] = Ev("reply", api, e)
ReplyFailed(api) ==
    \E i \in 1..Len(events) :
        events[i].kind = "reply" /\ events[i].a = api /\ events[i].b # NoErr

ReceivedMessages == {"Received input", "handling repository operation"}
TerminalMessages ==
    {"Failed to parse input", "Failed to execute bash command",
     "Bash command executed successfully", "Failed to unmarshal input parameters",
     "Git command failed", "Git command completed successfully",
     "GitHub repository operation failed",
     "GitHub repository operation completed successfully"}

SuccessShape(r) ==
    r.err = NoErr /\ ~r.result.isError /\ Len(r.result.content) > 0
DomainFailureShape(r) ==
    /\ r.err = NoErr
    /\ r.result.isError
    /\ Len(r.result.content) > 0
    /\ \A i \in 1..Len(r.result.content) :
          r.result.content[i].type = "text" /\ r.result.content[i].text # ""

\* A domain failure happened in the invocation: a remote call or a process run
\* failed, or the operation key is not one of the closed set.
DomainFailure ==
    \/ \E i \in 1..Len(events) : events[i].kind = "reply" /\ events[i].b # NoErr
    \/ proc.state = "exited" /\ proc.err # NoErr
    \/ /\ tool = GitHubRepositoryToolName
       /\ Decoded
       /\ input.Operation \notin ClosedOperations

\* C1: a handler that returns on an input that decoded returns the success
\* shape or the domain-failure shape, each with a nil error.
C1_EnvelopeShapes ==
    (Returned /\ Decoded) => (SuccessShape(ret) \/ DomainFailureShape(ret))

\* C2: a handler that returns on a payload that failed to decode returns a
\* non-nil error with an envelope whose content is empty and whose is_error
\* flag is false.
C2_DecodeFailureShape ==
    (Returned /\ DecodeFailed) =>
        /\ ret.err # NoErr
        /\ ret.result.content = <<>>
        /\ ~ret.result.isError

C2_Witness ==
    /\ Returned
    /\ tool = GitHubRepositoryToolName
    /\ args.wf
    /\ DecodeFailed

\* C3: every domain failure is returned as an is_error=true envelope with a nil
\* error.
C3_DomainFailureInEnvelope ==
    (Returned /\ DomainFailure) => (ret.result.isError /\ ret.err = NoErr)

\* The routing branch the claim gives each operation key: its remote calls.
BranchCalls(op) ==
    CASE op = "create" -> {"Repositories.Create"}
      [] op = "delete" -> {"Repositories.Delete"}
      [] op = "update" -> {"Repositories.Edit"}
      [] op = "fork" -> {"Repositories.CreateFork"}
      [] op = "list_branches" -> {"Repositories.ListBranches"}
      [] op = "create_branch" -> {"Git.GetRef", "Git.CreateRef"}
      [] op = "protect_branch" -> {"Repositories.UpdateBranchProtection"}
      [] OTHER -> {}

\* C4: in the repository tool an operation key of the closed set runs the
\* remote calls of its own branch and of no other; any other operation string
\* issues no remote call and returns is_error=true with the text
\* "unsupported operation: <value>" and a nil error.
C4_Routing ==
    (tool = GitHubRepositoryToolName /\ Decoded) =>
        IF input.Operation \in ClosedOperations
        THEN /\ Len(Calls) >= 1
             /\ \A i \in 1..Len(Calls) : Calls[i].a \in BranchCalls(input.Operation)
        ELSE /\ Calls = <<>>
             /\ Returned
             /\ ret.err = NoErr
             /\ ret.result.isError
             /\ ret.result.content =
                    <<TextContent("text", "unsupported operation: " \o input.Operation)>>

C4_Witness ==
    /\ Returned
    /\ tool = GitHubRepositoryToolName
    /\ args.wf
    /\ args.f.operation = Absent
    /\ Decoded
    /\ ret.result.content = <<TextContent("text", "unsupported operation: ")>>

\* C5: an operation other than create_branch issues exactly one remote call;
\* create_branch issues GetRef first and CreateRef only after GetRef has
\* succeeded, and when GetRef fails CreateRef is never called and GetRef is
\* not called again.
C5_RemoteCallSequence ==
    (tool = GitHubRepositoryToolName /\ Decoded /\ input.Operation \in ClosedOperations) =>
        IF input.Operation # "create_branch"
        THEN Len(Calls) = 1
        ELSE /\ CallNames \in {<<"Git.GetRef">>, <<"Git.GetRef", "Git.CreateRef">>}
             /\ \A j \in Positions("call") :
                   events[j].a = "Git.CreateRef" =>
                       \E i \in 1..(j - 1) : events[i] = Ev("reply", "Git.GetRef", NoErr)
             /\ ReplyFailed("Git.GetRef") => CallNames = <<"Git.GetRef">>

C5_Witness ==
    /\ Returned
    /\ tool = GitHubRepositoryToolName
    /\ Decoded
    /\ input.Operation = "create_branch"
    /\ ReplyFailed("Git.GetRef")

\* C6: in create_branch, when GetRef succeeds and CreateRef fails, the handler
\* returns a nil error and an is_error=false envelope and logs no error event.
C6_CreateRefErrorDiscarded ==
    (/\ Returned
     /\ tool = GitHubRepositoryToolName
     /\ Replied("Git.GetRef", NoErr)
     /\ ReplyFailed("Git.CreateRef")) =>
        /\ ret.err = NoErr
        /\ ~ret.result.isError
        /\ \A i \in Positions("log") : events[i].a # "error"

C6_Witness ==
    /\ Returned
    /\ tool = GitHubRepositoryToolName
    /\ input.Operation = "create_branch"
    /\ Replied("Git.GetRef", NoErr)
    /\ ReplyFailed("Git.CreateRef")

\* C7: every invocation that has returned logged a "received input" event
\* before the decode step and a terminal success-or-error event before the
\* return, and ran under exactly one span, started at entry with the tool name
\* and the raw arguments attached and ended at the return.
C7_Instrumented ==
    Returned =>
        /\ \E i \in Positions("log"), j \in Positions("decode") :
              i < j /\ events[i].b \in ReceivedMessages
        /\ \E i \in Positions("log"), j \in Positions("return") :
              i < j /\ events[i].b \in TerminalMessages
        /\ Positions("span.start") = {1}
        /\ span.started
        /\ span.toolName = <<tool>>
        /\ span.toolArgument = <<args>>
        /\ span.ended
        /\ Positions("span.end") = {Len(events) - 1}
        /\ Positions("return") = {Len(events)}

\* C8: a handler that exits with a failure (a non-nil error or an is_error
\* envelope) has recorded the error on its span before the span ended.
C8_ErrorRecordedBeforeSpanEnd ==
    (Returned /\ (ret.err # NoErr \/ ret.result.isError)) =>
        \E i \in Positions("span.record"), j \in Positions("span.end") : i < j

\* C9: a bash or git invocation that decoded ran its command through the
\* injected CommandExecutor exactly once; output with a nil error comes back as
\* the single text payload of an is_error=false envelope, an error as the
\* domain-failure envelope built from it.
C9_ThroughExecutor ==
    (Returned /\ Decoded /\ tool \in {BashToolName, GitToolName}) =>
        /\ Cardinality({i \in Positions("exec") : events[i].a = "executor"}) = 1
        /\ Cardinality(Positions("exec")) = 1
        /\ proc.err = NoErr =>
              ret = Return(CallToolResult(<<TextContent("text", proc.output)>>, FALSE), NoErr)
        /\ proc.err # NoErr => ret = Return(returnErrorOutput(proc.err), NoErr)

\* C10: once the context of a bash or git invocation is cancelled while its
\* process runs, the process eventually stops running and the handler returns.
C10_CancelTerminatesProcess ==
    (ctxDone /\ proc.state = "running") ~> (proc.state # "running" /\ Returned)

====
